---- MODULE Spec2Model ----
(***************************************************************************)
(* A model of servicecatalogtordf: the entity classes Service, Rule,       *)
(* LegalResource, ResourceType, PublicOrganization, Evidence, Event and    *)
(* CriterionRequirement, their attribute setters and their to_rdf mapping  *)
(* onto a set of RDF triples.                                              *)
(*                                                                         *)
(* heap[1] is the entity that is populated and serialized; heap[2..] are   *)
(* the entities it may refer to (a Service's organization, rule, legal     *)
(* resource, evidence and events, a Rule's legal resources, ...).          *)
(***************************************************************************)
EXTENDS Integers, Sequences, FiniteSets, TLC

VARIABLES
    heap,           \* the objects: heap[i] = [kind, g, attrs]
    skolem_count,   \* how many URIs Skolemizer.add_skolemization has minted
    nops,           \* how many setter / append statements the caller has run
    last,           \* the outcome of the last statement the caller ran
    threads         \* the to_rdf calls that run concurrently, each with its position

vars == <<heap, skolem_count, nops, last, threads>>

-----------------------------------------------------------------------------
(* Bounds of the exploration.                                              *)

\* the caller runs at most MaxOps setter / append statements
MaxOps == 2
\* a list attribute grows to at most MaxLen elements
MaxLen == 2
\* the skolemizer mints at most MaxSkolem URIs
MaxSkolem == 2

-----------------------------------------------------------------------------
(* Python values.  A slot that was never assigned is Unset: reading it     *)
(* through its property raises AttributeError, getattr(..., None) gives    *)
(* None.                                                                   *)

Unset == [tag |-> "unset"]
NoneV == [tag |-> "None"]
Str(s) == [tag |-> "str", s |-> s]
Dict(d) == [tag |-> "dict", d |-> d]
List(l) == [tag |-> "list", l |-> l]
Obj(i) == [tag |-> "obj", id |-> i]
GraphV(t) == [tag |-> "Graph", triples |-> t]

\* the constructor called without its identifier argument
NoArg == [tag |-> "noarg"]

\* bool(v) of a value read with getattr(self, name, None)
Truthy(v) ==
    CASE v.tag = "unset" -> FALSE
      [] v.tag = "None" -> FALSE
      [] v.tag = "str" -> v.s # ""
      [] v.tag = "dict" -> DOMAIN v.d # {}
      [] v.tag = "list" -> v.l # <<>>
      [] OTHER -> TRUE

\* datacatalogtordf.URI(link) of a well-formed link: a str holding the link
URI(link) == Str(link.s)

-----------------------------------------------------------------------------
(* RDF terms and the vocabulary.                                           *)

URIRef(u) == [t |-> "URIRef", v |-> u, lang |-> "", datatype |-> ""]
Literal(v, lang, datatype) == [t |-> "Literal", v |-> v, lang |-> lang, datatype |-> datatype]

RDF_type == "rdf:type"
XSD_anyURI == "xsd:anyURI"
XSD_duration == "xsd:duration"

-----------------------------------------------------------------------------
(* The classes.                                                            *)

EntityKinds ==
    {"Service", "Rule", "LegalResource", "PublicOrganization", "Evidence", "Event",
     "CriterionRequirement"}

\* the names the package exports
Exports ==
    {"Event", "Evidence", "LegalResource", "ResourceType", "PublicOrganization", "Rule",
     "Service"}

\* the properties of each class (its __slots__ without _g, by property name)
Properties(kind) ==
    CASE kind = "Service" ->
            {"identifier", "title", "description", "dct_identifier",
             "has_competent_authority", "follows", "has_legal_resources",
             "processing_time", "has_input", "is_grouped_by"}
      [] kind = "Rule" ->
            {"identifier", "dct_identifier", "title", "description", "implements",
             "languages", "types"}
      [] kind = "LegalResource" ->
            {"identifier", "dct_identifier", "types", "description", "references",
             "related"}
      [] kind = "ResourceType" -> {"identifier"}
      [] kind = "PublicOrganization" ->
            {"identifier", "spatial_coverage", "pref_label", "dct_identifier", "title"}
      [] kind = "Evidence" ->
            {"identifier", "dct_identifier", "name", "description", "type",
             "related_documentation", "languages"}
      [] kind = "Event" ->
            {"identifier", "dct_identifier", "name", "description", "type",
             "related_service"}
      [] kind = "CriterionRequirement" ->
            {"identifier", "dct_identifier", "title", "types"}
      [] kind = "Location" -> {"identifier"}

\* the list attributes the constructor sets to list()
InitLists(kind) ==
    CASE kind = "Service" -> {"follows", "has_legal_resources", "has_input", "is_grouped_by"}
      [] kind = "Rule" -> {"implements", "languages", "types"}
      [] kind = "LegalResource" -> {"types", "references", "related"}
      [] kind = "Evidence" -> {"related_documentation", "languages"}
      [] kind = "Event" -> {"related_service"}
      [] kind = "CriterionRequirement" -> {"types"}
      [] OTHER -> {}

\* object allocation: every slot unassigned
Blank(kind) == [kind |-> kind, g |-> Unset, attrs |-> [a \in Properties(kind) |-> Unset]]

\* getattr(obj, name, None)
getattr(obj, name) ==
    IF name \in Properties(obj.kind) /\ obj.attrs[name].tag # "unset"
    THEN obj.attrs[name]
    ELSE NoneV

\* obj.name raises AttributeError
Raises(obj, name) == name \notin Properties(obj.kind) \/ obj.attrs[name].tag = "unset"

-----------------------------------------------------------------------------
(* Setters.  A setter returns [exc, obj]: the exception it raises ("" when  *)
(* none) and the object afterwards.                                        *)

\* Service.identifier: stores URI(identifier) whatever the value
Service_identifier(obj, identifier) ==
    [exc |-> "", obj |-> [obj EXCEPT !.attrs["identifier"] = URI(identifier)]]

\* an identifier setter that stores whatever it is given
Optional_identifier_Unguarded(obj, identifier) ==
    [exc |-> "",
     obj |-> [obj EXCEPT !.attrs["identifier"] =
                    IF identifier.tag = "str" THEN URI(identifier) ELSE identifier]]

\* Rule.identifier, LegalResource.identifier, ...: a falsy value is dropped
Optional_identifier(obj, identifier) ==
    [exc |-> "",
     obj |-> IF Truthy(identifier)
             THEN [obj EXCEPT !.attrs["identifier"] = URI(identifier)]
             ELSE obj]

\* Evidence.type, Event.type: stores URI(type)
type_setter(obj, type) ==
    [exc |-> "", obj |-> [obj EXCEPT !.attrs["type"] = URI(type)]]

\* every other property: stores the value as it is
plain_setter(obj, name, value) ==
    [exc |-> "", obj |-> [obj EXCEPT !.attrs[name] = value]]

\* obj.name = value
setattr(obj, name, value) ==
    IF name \notin Properties(obj.kind)
    THEN [exc |-> "AttributeError", obj |-> obj]
    ELSE IF name = "identifier"
    THEN IF obj.kind = "Service"
         THEN Service_identifier(obj, value)
         ELSE Optional_identifier(obj, value)
    ELSE IF name = "type"
    THEN type_setter(obj, value)
    ELSE plain_setter(obj, name, value)

\* obj.name.append(x)
append(obj, name, x) ==
    IF Raises(obj, name) \/ obj.attrs[name].tag # "list"
    THEN [exc |-> "AttributeError", obj |-> obj]
    ELSE [exc |-> "", obj |-> [obj EXCEPT !.attrs[name] = List(Append(@.l, x))]]

-----------------------------------------------------------------------------
(* Constructors: [exc, obj].                                               *)

RECURSIVE SetLists(_, _)
\* self.<list> = list() for each list attribute of the constructor
SetLists(obj, names) ==
    IF names = {} THEN obj
    ELSE LET n == CHOOSE x \in names : TRUE
         IN SetLists(plain_setter(obj, n, List(<<>>)).obj, names \ {n})

\* Service(identifier): the argument is required
Service__init__(identifier) ==
    IF identifier = NoArg
    THEN [exc |-> "TypeError", obj |-> Blank("Service")]
    ELSE [exc |-> "",
          obj |-> SetLists(Service_identifier(Blank("Service"), identifier).obj,
                           InitLists("Service"))]

\* Rule, LegalResource, ResourceType, PublicOrganization, Evidence, Event:
\* self.identifier = identifier, with None as the default
Optional__init__(kind, identifier) ==
    LET arg == IF identifier = NoArg THEN NoneV ELSE identifier
    IN [exc |-> "",
        obj |-> SetLists(Optional_identifier(Blank(kind), arg).obj, InitLists(kind))]

\* CriterionRequirement: if identifier: self.identifier = identifier
CriterionRequirement__init__(identifier) ==
    LET arg == IF identifier = NoArg THEN NoneV ELSE identifier
        o == Blank("CriterionRequirement")
    IN [exc |-> "",
        obj |-> SetLists(IF Truthy(arg) THEN Optional_identifier(o, arg).obj ELSE o,
                         InitLists("CriterionRequirement"))]

\* datacatalogtordf.Location(), then location.identifier = identifier
Location__init__(identifier) ==
    LET arg == IF identifier = NoArg THEN NoneV ELSE identifier
    IN [exc |-> "", obj |-> Optional_identifier(Blank("Location"), arg).obj]

Construct(kind, identifier) ==
    CASE kind = "Service" -> Service__init__(identifier)
      [] kind = "CriterionRequirement" -> CriterionRequirement__init__(identifier)
      [] kind = "Location" -> Location__init__(identifier)
      [] OTHER -> Optional__init__(kind, identifier)

-----------------------------------------------------------------------------
(* Emission rules.  A rule reads the heap h and the object o = h[i] it     *)
(* serializes and gives [exc, triples]: the triples it adds to self._g and *)
(* the exception that ends it ("" when it runs to its end).  A loop that   *)
(* raises has added the triples of the elements before the failing one.    *)

\* URIRef(self.identifier) of an object whose identifier is set
Subject(o) == o.attrs["identifier"].s

\* a text rule that drops the language tags
LangTriples_Untagged(o, name, pred) ==
    IF Truthy(getattr(o, name))
    THEN [exc |-> "",
          triples |-> {<<Subject(o), pred, Literal(o.attrs[name].d[key], "", "")>> :
                          key \in DOMAIN o.attrs[name].d}]
    ELSE [exc |-> "", triples |-> {}]

\* for key in self.<name>: add (subject, pred, Literal(self.<name>[key], lang=key))
LangTriples(o, name, pred) ==
    IF Truthy(getattr(o, name))
    THEN [exc |-> "",
          triples |-> {<<Subject(o), pred, Literal(o.attrs[name].d[key], key, "")>> :
                          key \in DOMAIN o.attrs[name].d}]
    ELSE [exc |-> "", triples |-> {}]

\* a literal rule that tests "is a string" where the code tests truth
LiteralTriple_EmitsEmpty(o, name, pred, datatype) ==
    IF getattr(o, name).tag = "str"
    THEN [exc |-> "",
          triples |-> {<<Subject(o), pred, Literal(o.attrs[name].s, "", datatype)>>}]
    ELSE [exc |-> "", triples |-> {}]

\* add (subject, pred, Literal(self.<name>)) or Literal(self.<name>, datatype=...)
LiteralTriple(o, name, pred, datatype) ==
    IF Truthy(getattr(o, name))
    THEN [exc |-> "",
          triples |-> {<<Subject(o), pred, Literal(o.attrs[name].s, "", datatype)>>}]
    ELSE [exc |-> "", triples |-> {}]

\* add (subject, pred, URIRef(self._type))
UriTriple(o, name, pred) ==
    IF Truthy(getattr(o, name))
    THEN [exc |-> "", triples |-> {<<Subject(o), pred, URIRef(o.attrs[name].s)>>}]
    ELSE [exc |-> "", triples |-> {}]

\* a list rule that links the first element only
UriListTriples_FirstOnly(o, name, pred) ==
    IF Truthy(getattr(o, name))
    THEN [exc |-> "", triples |-> {<<Subject(o), pred, URIRef(o.attrs[name].l[1].s)>>}]
    ELSE [exc |-> "", triples |-> {}]

\* for _uri in self.<name>: add (subject, pred, URIRef(_uri))
UriListTriples(o, name, pred) ==
    IF Truthy(getattr(o, name))
    THEN [exc |-> "",
          triples |-> {<<Subject(o), pred, URIRef(o.attrs[name].l[k].s)>> :
                          k \in DOMAIN o.attrs[name].l}]
    ELSE [exc |-> "", triples |-> {}]

\* add (subject, pred, URIRef(self.<name>.identifier)): the referent's
\* identifier property raises AttributeError when it was never assigned
RefTriple(h, o, name, pred) ==
    IF Truthy(getattr(o, name))
    THEN LET r == h[o.attrs[name].id]
         IN IF Raises(r, "identifier")
            THEN [exc |-> "AttributeError", triples |-> {}]
            ELSE [exc |-> "", triples |-> {<<Subject(o), pred, URIRef(Subject(r))>>}]
    ELSE [exc |-> "", triples |-> {}]

\* a reference rule that also types each referent in the graph
RefListTriples_Embedding(h, o, name, pred) ==
    IF Truthy(getattr(o, name))
    THEN LET l == o.attrs[name].l
             bad == {k \in DOMAIN l : Raises(h[l[k].id], "identifier")}
             stop == IF bad = {} THEN Len(l) + 1
                     ELSE CHOOSE k \in bad : \A j \in bad : k <= j
         IN [exc |-> IF bad = {} THEN "" ELSE "AttributeError",
             triples |->
                {<<Subject(o), pred, URIRef(Subject(h[l[k].id]))>> : k \in 1..(stop - 1)}
                \cup {<<Subject(h[l[k].id]), RDF_type, URIRef(h[l[k].id].kind)>> :
                          k \in 1..(stop - 1)}]
    ELSE [exc |-> "", triples |-> {}]

\* a reference rule whose triples differ by the position of the element
RefListTriples_Indexed(h, o, name, pred) ==
    IF Truthy(getattr(o, name))
    THEN LET l == o.attrs[name].l
             bad == {k \in DOMAIN l : Raises(h[l[k].id], "identifier")}
             stop == IF bad = {} THEN Len(l) + 1
                     ELSE CHOOSE k \in bad : \A j \in bad : k <= j
         IN [exc |-> IF bad = {} THEN "" ELSE "AttributeError",
             triples |->
                {<<Subject(o), pred,
                   [URIRef(Subject(h[l[k].id])) EXCEPT !.lang = ToString(k)]>> :
                    k \in 1..(stop - 1)}]
    ELSE [exc |-> "", triples |-> {}]

\* for _ref in self.<name>: add (subject, pred, URIRef(_ref.identifier))
RefListTriples(h, o, name, pred) ==
    IF Truthy(getattr(o, name))
    THEN LET l == o.attrs[name].l
             bad == {k \in DOMAIN l : Raises(h[l[k].id], "identifier")}
             stop == IF bad = {} THEN Len(l) + 1
                     ELSE CHOOSE k \in bad : \A j \in bad : k <= j
         IN [exc |-> IF bad = {} THEN "" ELSE "AttributeError",
             triples |-> {<<Subject(o), pred, URIRef(Subject(h[l[k].id]))>> :
                             k \in 1..(stop - 1)}]
    ELSE [exc |-> "", triples |-> {}]

RECURSIVE RunRules_LastWins(_, _, _)
\* rules that each replace the graph instead of adding to it
RunRules_LastWins(rules, k, acc) ==
    IF k > Len(rules) THEN [exc |-> "", triples |-> acc]
    ELSE IF rules[k].exc # ""
         THEN [exc |-> rules[k].exc, triples |-> rules[k].triples]
         ELSE RunRules_LastWins(rules, k + 1,
                                IF rules[k].triples = {} THEN acc ELSE rules[k].triples)

RECURSIVE RunRules(_, _, _)
\* self._g after the rules run in order, up to the first one that raises
RunRules(rules, k, acc) ==
    IF k > Len(rules) THEN [exc |-> "", triples |-> acc]
    ELSE IF rules[k].exc # ""
         THEN [exc |-> rules[k].exc, triples |-> acc \cup rules[k].triples]
         ELSE RunRules(rules, k + 1, acc \cup rules[k].triples)

\* an assembler that leaves the type triple out
Assemble_Untyped(o, class, rules) == RunRules(rules, 1, {})

\* an assembler that adds to the graph of the previous call
Assemble_Accumulating(o, class, rules) ==
    RunRules(rules, 1,
             (IF o.g.tag = "Graph" THEN o.g.triples ELSE {})
                 \cup {<<Subject(o), RDF_type, URIRef(class)>>})

\* self._g = Graph(); self._g.add((URIRef(self.identifier), RDF.type, class));
\* then the rules
Assemble(o, class, rules) == RunRules(rules, 1, {<<Subject(o), RDF_type, URIRef(class)>>})

-----------------------------------------------------------------------------
(* The skolemizer.                                                         *)

SkolemURIs ==
    <<"http://example.com/.well-known/skolem/1", "http://example.com/.well-known/skolem/2",
      "http://example.com/.well-known/skolem/3", "http://example.com/.well-known/skolem/4">>

\* Skolemizer.add_skolemization() when n URIs were minted before: a fresh URI
add_skolemization(n) == Str(SkolemURIs[n + 1])

\* a resolver that mints again for an identifier that is itself a skolem URI
Skolemize_Remint(o, n) ==
    IF ~Truthy(getattr(o, "identifier"))
       \/ \E k \in DOMAIN SkolemURIs : getattr(o, "identifier") = Str(SkolemURIs[k])
    THEN [obj |-> Optional_identifier(o, add_skolemization(n)).obj, minted |-> 1]
    ELSE [obj |-> o, minted |-> 0]

\* a resolver that mints whether or not the identifier is set
Skolemize_Always(o, n) ==
    [obj |-> Optional_identifier(o, add_skolemization(n)).obj, minted |-> 1]

\* if not getattr(self, "identifier", None):
\*     self.identifier = Skolemizer.add_skolemization()
\* [obj, minted]: the object afterwards and the number of URIs minted
Skolemize(o, n) ==
    IF ~Truthy(getattr(o, "identifier"))
    THEN [obj |-> Optional_identifier(o, add_skolemization(n)).obj, minted |-> 1]
    ELSE [obj |-> o, minted |-> 0]

-----------------------------------------------------------------------------
(* Service *)

Service_title_to_graph(o) == LangTriples(o, "title", "dct:title")
Service_description_to_graph(o) == LangTriples(o, "description", "dct:description")
Service_dct_identifier_to_graph(o) == LiteralTriple(o, "dct_identifier", "dct:identifier", "")
Service_has_competent_authority_to_graph(h, o) == RefTriple(h, o, "has_competent_authority", "cv:hasCompetentAuthority")
Service_follows_to_graph(h, o) == RefListTriples(h, o, "follows", "cpsv:follows")
Service_has_legal_resources_to_graph(h, o) == RefListTriples(h, o, "has_legal_resources", "cv:hasLegalResource")
\* a processing time rule that leaves the datatype out
Service_processing_time_to_graph_Plain(o) ==
    LiteralTriple(o, "processing_time", "cv:processingTime", "")
Service_processing_time_to_graph(o) == LiteralTriple(o, "processing_time", "cv:processingTime", XSD_duration)
Service_has_input_to_graph(h, o) == RefListTriples(h, o, "has_input", "cpsv:hasInput")
Service_is_grouped_by_to_graph(h, o) == RefListTriples(h, o, "is_grouped_by", "cv:isGroupedBy")

\* the rules of Service._to_graph, in the order it calls them
Service_rules(h, o) ==
    <<Service_title_to_graph(o),
      Service_description_to_graph(o),
      Service_dct_identifier_to_graph(o),
      Service_has_competent_authority_to_graph(h, o),
      Service_follows_to_graph(h, o),
      Service_has_legal_resources_to_graph(h, o),
      Service_processing_time_to_graph(o),
      Service_has_input_to_graph(h, o),
      Service_is_grouped_by_to_graph(h, o)>>

\* Service._to_graph on h[i]: [heap, exc, minted], self._g holding the triples
\* added so far.  It does not resolve a missing identifier: URIRef(self.identifier)
\* reads the identifier the constructor stored.
Service_to_graph(h, i, n) ==
    LET h1 == h
        o == h1[i]
        res == Assemble(o, "cpsv:PublicService", Service_rules(h1, o))
    IN [heap |-> [h1 EXCEPT ![i].g = GraphV(res.triples)],
        exc |-> res.exc, minted |-> 0]

-----------------------------------------------------------------------------
(* Rule *)

Rule_title_to_graph(o) == LangTriples(o, "title", "dct:title")
Rule_dct_identifier_to_graph(o) == LiteralTriple(o, "dct_identifier", "dct:identifier", "")
Rule_description_to_graph(o) == LangTriples(o, "description", "dct:description")
Rule_implements_to_graph(h, o) == RefListTriples(h, o, "implements", "cpsv:implements")
Rule_languages_to_graph(o) == UriListTriples(o, "languages", "dct:language")
\* a types rule under the predicate of the languages
Rule_types_to_graph_AsLanguage(o) == UriListTriples(o, "types", "dct:language")
Rule_types_to_graph(o) == UriListTriples(o, "types", "dct:type")

\* the rules of Rule._to_graph, in the order it calls them
Rule_rules(h, o) ==
    <<Rule_title_to_graph(o),
      Rule_dct_identifier_to_graph(o),
      Rule_description_to_graph(o),
      Rule_implements_to_graph(h, o),
      Rule_languages_to_graph(o),
      Rule_types_to_graph(o)>>

\* Rule._to_graph on h[i] when the skolemizer has minted n URIs:
\* [heap, exc, minted], self._g holding the triples added so far
Rule_to_graph(h, i, n) ==
    LET r == Skolemize(h[i], n)
        h1 == [h EXCEPT ![i] = r.obj]
        o == h1[i]
        res == Assemble(o, "cpsv:Rule", Rule_rules(h1, o))
    IN [heap |-> [h1 EXCEPT ![i].g = GraphV(res.triples)],
        exc |-> res.exc, minted |-> r.minted]

-----------------------------------------------------------------------------
(* LegalResource *)

LegalResource_types_to_graph(h, o) == RefListTriples(h, o, "types", "dct:type")
\* a dct_identifier rule that types the literal
LegalResource_dct_identifier_to_graph_Typed(o) ==
    LiteralTriple(o, "dct_identifier", "dct:identifier", XSD_anyURI)
LegalResource_dct_identifier_to_graph(o) == LiteralTriple(o, "dct_identifier", "dct:identifier", "")
LegalResource_description_to_graph(o) == LangTriples(o, "description", "dct:description")
LegalResource_references_to_graph(o) == UriListTriples(o, "references", "rdfs:seeAlso")
\* a related rule that leaves out a resource related to itself
LegalResource_related_to_graph_NoSelf(h, o) ==
    RefListTriples(h,
        [o EXCEPT !.attrs["related"] =
            IF @.tag = "list"
            THEN List(SelectSeq(@.l, LAMBDA x : h[x.id] # o))
            ELSE @],
        "related", "dct:relation")
LegalResource_related_to_graph(h, o) == RefListTriples(h, o, "related", "dct:relation")

\* the rules of LegalResource._to_graph, in the order it calls them
LegalResource_rules(h, o) ==
    <<LegalResource_types_to_graph(h, o),
      LegalResource_dct_identifier_to_graph(o),
      LegalResource_description_to_graph(o),
      LegalResource_references_to_graph(o),
      LegalResource_related_to_graph(h, o)>>

\* LegalResource._to_graph on h[i] when the skolemizer has minted n URIs:
\* [heap, exc, minted], self._g holding the triples added so far
LegalResource_to_graph(h, i, n) ==
    LET r == Skolemize(h[i], n)
        h1 == [h EXCEPT ![i] = r.obj]
        o == h1[i]
        res == Assemble(o, "eli:LegalResource", LegalResource_rules(h1, o))
    IN [heap |-> [h1 EXCEPT ![i].g = GraphV(res.triples)],
        exc |-> res.exc, minted |-> r.minted]

-----------------------------------------------------------------------------
(* PublicOrganization *)

PublicOrganization_title_to_graph(o) == LangTriples(o, "title", "dct:title")
PublicOrganization_dct_identifier_to_graph(o) == LiteralTriple(o, "dct_identifier", "dct:identifier", "")
\* a pref_label rule under the predicate of the title
PublicOrganization_pref_label_to_graph_AsTitle(o) == LangTriples(o, "pref_label", "dct:title")
PublicOrganization_pref_label_to_graph(o) == LangTriples(o, "pref_label", "skos:prefLabel")
PublicOrganization_spatial_coverage_to_graph(h, o) == RefTriple(h, o, "spatial_coverage", "dct:spatial")

\* the rules of PublicOrganization._to_graph, in the order it calls them
PublicOrganization_rules(h, o) ==
    <<PublicOrganization_title_to_graph(o),
      PublicOrganization_dct_identifier_to_graph(o),
      PublicOrganization_pref_label_to_graph(o),
      PublicOrganization_spatial_coverage_to_graph(h, o)>>

\* PublicOrganization._to_graph on h[i] when the skolemizer has minted n URIs:
\* [heap, exc, minted], self._g holding the triples added so far
PublicOrganization_to_graph(h, i, n) ==
    LET r == Skolemize(h[i], n)
        h1 == [h EXCEPT ![i] = r.obj]
        o == h1[i]
        res == Assemble(o, "cv:PublicOrganization", PublicOrganization_rules(h1, o))
    IN [heap |-> [h1 EXCEPT ![i].g = GraphV(res.triples)],
        exc |-> res.exc, minted |-> r.minted]

-----------------------------------------------------------------------------
(* Evidence *)

Evidence_dct_identifier_to_graph(o) == LiteralTriple(o, "dct_identifier", "dct:identifier", "")
\* a name rule under foaf:name
Evidence_name_to_graph_AsName(o) == LangTriples(o, "name", "foaf:name")
Evidence_name_to_graph(o) == LangTriples(o, "name", "dct:title")
Evidence_description_to_graph(o) == LangTriples(o, "description", "dct:description")
Evidence_type_to_graph(o) == UriTriple(o, "type", "dct:type")
Evidence_related_documentation_to_graph(o) == UriListTriples(o, "related_documentation", "foaf:page")
Evidence_languages_to_graph(o) == UriListTriples(o, "languages", "dct:language")

\* the rules of Evidence._to_graph, in the order it calls them
Evidence_rules(h, o) ==
    <<Evidence_dct_identifier_to_graph(o),
      Evidence_name_to_graph(o),
      Evidence_description_to_graph(o),
      Evidence_type_to_graph(o),
      Evidence_related_documentation_to_graph(o),
      Evidence_languages_to_graph(o)>>

\* Evidence._to_graph on h[i] when the skolemizer has minted n URIs:
\* [heap, exc, minted], self._g holding the triples added so far
Evidence_to_graph(h, i, n) ==
    LET r == Skolemize(h[i], n)
        h1 == [h EXCEPT ![i] = r.obj]
        o == h1[i]
        res == Assemble(o, "cpsv:Evidence", Evidence_rules(h1, o))
    IN [heap |-> [h1 EXCEPT ![i].g = GraphV(res.triples)],
        exc |-> res.exc, minted |-> r.minted]

-----------------------------------------------------------------------------
(* Event *)

Event_dct_identifier_to_graph(o) == LiteralTriple(o, "dct_identifier", "dct:identifier", "")
Event_name_to_graph(o) == LangTriples(o, "name", "dct:title")
Event_description_to_graph(o) == LangTriples(o, "description", "dct:description")
Event_type_to_graph(o) == UriTriple(o, "type", "dct:type")
\* a related_service rule under rdfs:seeAlso
Event_related_service_to_graph_AsSeeAlso(o) ==
    UriListTriples(o, "related_service", "rdfs:seeAlso")
Event_related_service_to_graph(o) == UriListTriples(o, "related_service", "dct:relation")

\* the rules of Event._to_graph, in the order it calls them
Event_rules(h, o) ==
    <<Event_dct_identifier_to_graph(o),
      Event_name_to_graph(o),
      Event_description_to_graph(o),
      Event_type_to_graph(o),
      Event_related_service_to_graph(o)>>

\* Event._to_graph on h[i] when the skolemizer has minted n URIs:
\* [heap, exc, minted], self._g holding the triples added so far
Event_to_graph(h, i, n) ==
    LET r == Skolemize(h[i], n)
        h1 == [h EXCEPT ![i] = r.obj]
        o == h1[i]
        res == Assemble(o, "cpsv:Event", Event_rules(h1, o))
    IN [heap |-> [h1 EXCEPT ![i].g = GraphV(res.triples)],
        exc |-> res.exc, minted |-> r.minted]

-----------------------------------------------------------------------------
(* CriterionRequirement *)

CriterionRequirement_title_to_graph(o) == LangTriples(o, "title", "dct:title")
\* a dct_identifier rule that leaves the datatype out
CriterionRequirement_dct_identifier_to_graph_Plain(o) ==
    LiteralTriple(o, "dct_identifier", "dct:identifier", "")
CriterionRequirement_dct_identifier_to_graph(o) == LiteralTriple(o, "dct_identifier", "dct:identifier", XSD_anyURI)
CriterionRequirement_types_to_graph(o) == UriListTriples(o, "types", "dct:type")

\* the rules of CriterionRequirement._to_graph, in the order it calls them
CriterionRequirement_rules(h, o) ==
    <<CriterionRequirement_title_to_graph(o),
      CriterionRequirement_dct_identifier_to_graph(o),
      CriterionRequirement_title_to_graph(o),
      CriterionRequirement_types_to_graph(o)>>

\* CriterionRequirement._to_graph on h[i] when the skolemizer has minted n URIs:
\* [heap, exc, minted], self._g holding the triples added so far
CriterionRequirement_to_graph(h, i, n) ==
    LET r == Skolemize(h[i], n)
        h1 == [h EXCEPT ![i] = r.obj]
        o == h1[i]
        res == Assemble(o, "cv:CriterionRequirement", CriterionRequirement_rules(h1, o))
    IN [heap |-> [h1 EXCEPT ![i].g = GraphV(res.triples)],
        exc |-> res.exc, minted |-> r.minted]

-----------------------------------------------------------------------------
(* to_rdf.                                                                 *)

\* the class of the type triple that the _to_graph of a kind adds
ClassOf(kind) ==
    CASE kind = "Service" -> "cpsv:PublicService"
      [] kind = "Rule" -> "cpsv:Rule"
      [] kind = "LegalResource" -> "eli:LegalResource"
      [] kind = "PublicOrganization" -> "cv:PublicOrganization"
      [] kind = "Evidence" -> "cpsv:Evidence"
      [] kind = "Event" -> "cpsv:Event"
      [] kind = "CriterionRequirement" -> "cv:CriterionRequirement"

\* the rules of the object's class
Rules(h, o) ==
    CASE o.kind = "Service" -> Service_rules(h, o)
      [] o.kind = "Rule" -> Rule_rules(h, o)
      [] o.kind = "LegalResource" -> LegalResource_rules(h, o)
      [] o.kind = "PublicOrganization" -> PublicOrganization_rules(h, o)
      [] o.kind = "Evidence" -> Evidence_rules(h, o)
      [] o.kind = "Event" -> Event_rules(h, o)
      [] o.kind = "CriterionRequirement" -> CriterionRequirement_rules(h, o)

\* the _to_graph of the object's class
to_graph(h, i, n) ==
    CASE h[i].kind = "Service" -> Service_to_graph(h, i, n)
      [] h[i].kind = "Rule" -> Rule_to_graph(h, i, n)
      [] h[i].kind = "LegalResource" -> LegalResource_to_graph(h, i, n)
      [] h[i].kind = "PublicOrganization" -> PublicOrganization_to_graph(h, i, n)
      [] h[i].kind = "Evidence" -> Evidence_to_graph(h, i, n)
      [] h[i].kind = "Event" -> Event_to_graph(h, i, n)
      [] h[i].kind = "CriterionRequirement" -> CriterionRequirement_to_graph(h, i, n)

\* Graph.serialize(format=format, encoding=encoding): the document of the triples
serialize(g, format) == [format |-> format, triples |-> g.triples]

\* a to_rdf that gives an identifier to every object that has none
to_rdf_Resolving(h, i, n, format) ==
    LET r == to_graph(h, i, n)
    IN [heap |-> [j \in DOMAIN r.heap |->
                    IF j # i /\ Raises(r.heap[j], "identifier")
                    THEN Optional_identifier(r.heap[j], Str("http://example.com/resolved")).obj
                    ELSE r.heap[j]],
        exc |-> r.exc, minted |-> r.minted,
        ret |-> IF r.exc = "" THEN serialize(r.heap[i].g, format)
                ELSE [format |-> format, triples |-> {}]]

\* self._to_graph().serialize(format=format, encoding=encoding):
\* [heap, exc, ret, minted]; ret is the returned document, without triples
\* when the call raises
to_rdf(h, i, n, format) ==
    LET r == to_graph(h, i, n)
    IN [heap |-> r.heap, exc |-> r.exc, minted |-> r.minted,
        ret |-> IF r.exc = "" THEN serialize(r.heap[i].g, format)
                ELSE [format |-> format, triples |-> {}]]

\* the exception of a skolemizer that fails
SkolemizerError == "SkolemizerError"

\* a to_rdf that calls the skolemizer again when it has raised
to_rdf_skolemizer_raises_Retrying(h, i, n, format) ==
    LET r == to_rdf(h, i, n, format)
    IN [heap |-> r.heap, exc |-> r.exc, minted |-> r.minted, ret |-> r.ret, calls |-> 2]

\* to_rdf on an object without identifier when add_skolemization() raises:
\* the exception leaves _to_graph at its first statement, before the
\* identifier and self._g are assigned; the skolemizer was called once
to_rdf_skolemizer_raises(h, i, n, format) ==
    [heap |-> h, exc |-> SkolemizerError, minted |-> 0,
     ret |-> [format |-> format, triples |-> {}], calls |-> 1]

-----------------------------------------------------------------------------
(* The caller: the entities it constructs and the values it assigns.       *)

\* the identifiers the caller gives to the objects it constructs, by position
OwnURIs ==
    <<"http://example.com/1", "http://example.com/2", "http://example.com/3",
      "http://example.com/4", "http://example.com/5", "http://example.com/6",
      "http://example.com/7", "http://example.com/8">>

\* another identifier, which the caller may assign to any object
OtherURI == "http://example.com/other"

\* the classes of the objects an entity of this class refers to
Referents(kind) ==
    CASE kind = "Service" ->
            <<"PublicOrganization", "Rule", "LegalResource", "Evidence", "Event", "Event",
              "CriterionRequirement">>
      [] kind = "Rule" -> <<"LegalResource", "LegalResource">>
      [] kind = "LegalResource" -> <<"ResourceType", "LegalResource">>
      [] kind = "PublicOrganization" -> <<"Location">>
      [] OTHER -> <<>>

\* the class the elements of a reference attribute have
RefKind(kind, name) ==
    CASE kind = "Service" /\ name = "has_competent_authority" -> "PublicOrganization"
      [] kind = "Service" /\ name = "follows" -> "Rule"
      [] kind = "Service" /\ name = "has_legal_resources" -> "LegalResource"
      [] kind = "Service" /\ name = "has_input" -> "Evidence"
      [] kind = "Service" /\ name = "is_grouped_by" -> "Event"
      [] kind = "Service" /\ name = "has_criterion" -> "CriterionRequirement"
      [] kind = "Rule" /\ name = "implements" -> "LegalResource"
      [] kind = "LegalResource" /\ name = "types" -> "ResourceType"
      [] kind = "LegalResource" /\ name = "related" -> "LegalResource"
      [] kind = "PublicOrganization" /\ name = "spatial_coverage" -> "Location"
      [] OTHER -> "str"

TextNames == {"title", "description", "name", "pref_label"}
ScalarNames == {"dct_identifier", "processing_time"}
SingleRefNames == {"has_competent_authority", "spatial_coverage"}
ListNames ==
    {"follows", "has_legal_resources", "has_input", "is_grouped_by", "implements",
     "languages", "types", "references", "related", "related_documentation",
     "related_service"}

\* the lists the caller appends to: the list attributes of the class, and
\* has_criterion of a Service
Appended(kind) ==
    (Properties(kind) \cap ListNames) \cup
    (IF kind = "Service" THEN {"has_criterion"} ELSE {})

EmptyDict == Dict(<<>>)
TwoLangs == Dict([key \in {"en", "nb"} |-> IF key = "en" THEN "Text" ELSE "Tekst"])

\* the texts of a referent
ReferentText == Dict([key \in {"en"} |-> "Referent text"])

\* a referent comes with attributes of its own
Described(obj) ==
    [obj EXCEPT !.attrs =
        [a \in DOMAIN @ |->
            IF a \in TextNames THEN ReferentText
            ELSE IF a = "dct_identifier" THEN Str("https://unique.uri.com/referent")
            ELSE @[a]]]

\* a LegalResource that a LegalResource may refer to lists that one, heap[1],
\* as related: the two are related to each other
RelatedBack(kind, obj) ==
    IF kind = "LegalResource" /\ obj.kind = "LegalResource"
    THEN append(obj, "related", Obj(1)).obj
    ELSE obj

\* the values the caller assigns to a property of heap[i]
InputValues(h, i, name) ==
    CASE name = "identifier" ->
            IF h[i].kind = "Service" \/ i # 1 THEN {Str(OtherURI)}
            ELSE {NoneV, Str(""), Str(OtherURI)}
      [] name \in TextNames -> {EmptyDict, TwoLangs}
      [] name = "dct_identifier" -> {Str(""), Str("https://unique.uri.com")}
      [] name = "processing_time" -> {NoneV, Str("P1D")}
      [] name = "type" -> {Str("http://example.com/type")}
      [] name \in SingleRefNames ->
            {NoneV} \cup
            {Obj(j) : j \in {k \in DOMAIN h : h[k].kind = RefKind(h[i].kind, name)}}

\* the elements the caller appends to a list attribute
Elements(h, kind, name) ==
    IF RefKind(kind, name) = "str"
    THEN {Str("http://example.com/a"), Str("http://example.com/b")}
    ELSE {Obj(i) : i \in {j \in DOMAIN h : h[j].kind = RefKind(kind, name)}}

RECURSIVE SeqOf(_)
\* the elements of a set of object positions, in increasing order
SeqOf(S) ==
    IF S = {} THEN <<>>
    ELSE LET m == CHOOSE x \in S : \A y \in S : x <= y
         IN <<Obj(m)>> \o SeqOf(S \ {m})

\* the caller has assigned a non-empty value to every property of heap[1]:
\* every object of the right class is listed in its reference attributes
Populated(h) ==
    LET kind == h[1].kind
        of(name) == {j \in DOMAIN h : h[j].kind = RefKind(kind, name)}
    IN [h EXCEPT ![1].attrs =
        [a \in DOMAIN @ |->
            IF a \in TextNames THEN TwoLangs
            ELSE IF a = "dct_identifier" THEN Str("https://unique.uri.com")
            ELSE IF a = "processing_time" THEN Str("P1D")
            ELSE IF a = "type" THEN URI(Str("http://example.com/type"))
            ELSE IF a \in SingleRefNames THEN SeqOf(of(a))[1]
            ELSE IF a \in ListNames
            THEN IF RefKind(kind, a) = "str"
                 THEN List(<<Str("http://example.com/a"), Str("http://example.com/b")>>)
                 ELSE List(SeqOf(of(a)))
            ELSE @[a]]]

NoRet == [format |-> "", triples |-> {}]
Formats == {"turtle"}

-----------------------------------------------------------------------------
(* The state machine.                                                      *)

\* the positions of the objects the entity heap[1] refers to, by any attribute
Linked ==
    {i \in DOMAIN heap :
        \E name \in Properties(heap[1].kind) :
            LET v == getattr(heap[1], name)
            IN \/ v = Obj(i)
               \/ v.tag = "list" /\ \E k \in DOMAIN v.l : v.l[k] = Obj(i)}

\* the caller has constructed an entity of some class, with or without an
\* identifier, and the objects it may refer to, all with or all without one;
\* it has assigned nothing yet, or a value to every property
Init ==
    \E kind \in EntityKinds, arg \in {NoArg, Str(OwnURIs[1])}, identified \in BOOLEAN,
       populated \in BOOLEAN :
        LET c == Construct(kind, arg)
            refs == [k \in DOMAIN Referents(kind) |->
                        RelatedBack(kind,
                            Described(Construct(Referents(kind)[k],
                                                IF identified THEN Str(OwnURIs[k + 1])
                                                ELSE NoArg).obj))]
        IN /\ heap = IF c.exc # "" THEN <<>>
                     ELSE IF populated THEN Populated(<<c.obj>> \o refs)
                     ELSE <<c.obj>> \o refs
           /\ skolem_count = 0
           /\ nops = 0
           /\ threads = <<>>
           /\ last = [op |-> "__init__", name |-> "", kind |-> kind, exc |-> c.exc,
                      ret |-> NoRet, pre |-> arg, minted |-> 0,
                      calls |-> 0]

\* heap[i].identifier = value, for the entity or an object it refers to
SetIdentifier(i, value) ==
    /\ nops < MaxOps
    /\ LET r == setattr(heap[i], "identifier", value)
       IN /\ heap' = [heap EXCEPT ![i] = r.obj]
          /\ last' = [op |-> "set", name |-> "identifier", kind |-> heap[i].kind,
                      exc |-> r.exc, ret |-> NoRet,
                      pre |-> heap[i].attrs["identifier"], minted |-> 0,
                      calls |-> 0]
    /\ nops' = nops + 1
    /\ UNCHANGED skolem_count

\* heap[1].name = value
SetAttr(name, value) ==
    /\ nops < MaxOps
    /\ LET r == setattr(heap[1], name, value)
       IN /\ heap' = [heap EXCEPT ![1] = r.obj]
          /\ last' = [op |-> "set", name |-> name, kind |-> heap[1].kind, exc |-> r.exc,
                      ret |-> NoRet, pre |-> heap[1].attrs["identifier"], minted |-> 0,
                      calls |-> 0]
    /\ nops' = nops + 1
    /\ UNCHANGED skolem_count

\* heap[1].name.append(x)
AppendTo(name, x) ==
    /\ nops < MaxOps
    /\ (~Raises(heap[1], name) /\ heap[1].attrs[name].tag = "list") =>
            Len(heap[1].attrs[name].l) < MaxLen
    /\ LET r == append(heap[1], name, x)
       IN /\ heap' = [heap EXCEPT ![1] = r.obj]
          /\ last' = [op |-> "append", name |-> name, kind |-> heap[1].kind,
                      exc |-> r.exc, ret |-> NoRet,
                      pre |-> heap[1].attrs["identifier"], minted |-> 0,
                      calls |-> 0]
    /\ nops' = nops + 1
    /\ UNCHANGED skolem_count

\* heap[1].to_rdf(format)
ToRdf(format) ==
    LET r == to_rdf(heap, 1, skolem_count, format)
    IN /\ skolem_count + r.minted <= MaxSkolem
       /\ heap' = r.heap
       /\ skolem_count' = skolem_count + r.minted
       /\ last' = [op |-> "to_rdf", name |-> "", kind |-> heap[1].kind, exc |-> r.exc,
                   ret |-> r.ret, pre |-> heap[1].attrs["identifier"],
                   minted |-> r.minted, calls |-> r.minted]
       /\ UNCHANGED nops

\* heap[1].to_rdf(format) when Skolemizer.add_skolemization() raises
ToRdfSkolemizerRaises(format) ==
    /\ heap[1].kind # "Service"
    /\ ~Truthy(getattr(heap[1], "identifier"))
    /\ LET r == to_rdf_skolemizer_raises(heap, 1, skolem_count, format)
       IN /\ heap' = r.heap
          /\ skolem_count' = skolem_count + r.minted
          /\ last' = [op |-> "to_rdf", name |-> "", kind |-> heap[1].kind, exc |-> r.exc,
                      ret |-> r.ret, pre |-> heap[1].attrs["identifier"],
                      minted |-> r.minted, calls |-> r.calls]
    /\ UNCHANGED nops

Next ==
    /\ heap # <<>>
    /\ \/ \E i \in {1} \cup Linked :
              \E value \in InputValues(heap, i, "identifier") :
                  SetIdentifier(i, value)
       \/ \E name \in Properties(heap[1].kind) \ ({"identifier"} \cup ListNames) :
              \E value \in InputValues(heap, 1, name) : SetAttr(name, value)
       \/ \E name \in Appended(heap[1].kind) :
              \E x \in Elements(heap, heap[1].kind, name) : AppendTo(name, x)
       \/ \E format \in Formats : ToRdf(format)
    /\ UNCHANGED threads

Spec == Init /\ [][Next]_vars

\* the program with a skolemizer that may raise
NextSkolemizerFails ==
    \/ Next
    \/ /\ heap # <<>>
       /\ \E format \in Formats : ToRdfSkolemizerRaises(format)
       /\ UNCHANGED threads

SpecSkolemizerFails == Init /\ [][NextSkolemizerFails]_vars

-----------------------------------------------------------------------------
(* Two to_rdf calls that run concurrently, statement by statement.  A call  *)
(* keeps no graph of its own: _to_graph stores the graph in self._g and     *)
(* every rule adds to whatever self._g is when it runs.                     *)

\* the positions of the objects that h[a] refers to, by any attribute
Refers(h, a) ==
    {i \in DOMAIN h :
        \E name \in Properties(h[a].kind) :
            LET v == getattr(h[a], name)
            IN \/ v = Obj(i)
               \/ v.tag = "list" /\ \E k \in DOMAIN v.l : v.l[k] = Obj(i)}

\* a to_rdf call on h[i] that has not run a statement yet; the _to_graph of
\* a Service begins at self._g = Graph()
Call(h, i, format) ==
    [pc |-> IF h[i].kind = "Service" THEN "graph" ELSE "check",
     self |-> i, k |-> 1, tmp |-> NoneV, exc |-> "", ret |-> NoRet, format |-> format]

\* a graph that every object shares
NewGraph_Shared(h, i) == [j \in DOMAIN h |-> [h[j] EXCEPT !.g = GraphV({})]]

\* self._g = Graph()
NewGraph(h, i) == [h EXCEPT ![i].g = GraphV({})]

\* self._g.add(t) for every t of a set of triples
AddAll(h, i, triples) == [h EXCEPT ![i].g = GraphV(@.triples \cup triples)]

\* the entities that have a to_rdf of this package
Targets == {i \in DOMAIN heap : heap[i].kind \in EntityKinds}

\* two threads call to_rdf, on the same object or on two objects
Start(a, b, format) ==
    /\ threads = <<>>
    /\ threads' = <<Call(heap, a, format), Call(heap, b, format)>>
    /\ UNCHANGED <<heap, skolem_count, nops, last>>

\* if not getattr(self, "identifier", None):
Check(t) ==
    /\ threads # <<>>
    /\ threads[t].pc = "check"
    /\ threads' = [threads EXCEPT ![t].pc =
                        IF Truthy(getattr(heap[threads[t].self], "identifier"))
                        THEN "graph" ELSE "mint"]
    /\ UNCHANGED <<heap, skolem_count, nops, last>>

\* Skolemizer.add_skolemization(), which mints atomically
Mint(t) ==
    /\ threads # <<>>
    /\ threads[t].pc = "mint"
    /\ skolem_count < MaxSkolem
    /\ threads' = [threads EXCEPT ![t].pc = "assign",
                                  ![t].tmp = add_skolemization(skolem_count)]
    /\ skolem_count' = skolem_count + 1
    /\ UNCHANGED <<heap, nops, last>>

\* self.identifier = <the minted URI>
Assign(t) ==
    /\ threads # <<>>
    /\ threads[t].pc = "assign"
    /\ heap' = [heap EXCEPT ![threads[t].self] = setattr(@, "identifier", threads[t].tmp).obj]
    /\ threads' = [threads EXCEPT ![t].pc = "graph"]
    /\ UNCHANGED <<skolem_count, nops, last>>

\* self._g = Graph()
CreateGraph(t) ==
    /\ threads # <<>>
    /\ threads[t].pc = "graph"
    /\ heap' = NewGraph(heap, threads[t].self)
    /\ threads' = [threads EXCEPT ![t].pc = "type"]
    /\ UNCHANGED <<skolem_count, nops, last>>

\* self._g.add((URIRef(self.identifier), RDF.type, <class>))
AddType(t) ==
    /\ threads # <<>>
    /\ threads[t].pc = "type"
    /\ LET i == threads[t].self
       IN heap' = AddAll(heap, i, {<<Subject(heap[i]), RDF_type, URIRef(ClassOf(heap[i].kind))>>})
    /\ threads' = [threads EXCEPT ![t].pc = "rule"]
    /\ UNCHANGED <<skolem_count, nops, last>>

\* the next rule of _to_graph: self._<attribute>_to_graph()
RunRule(t) ==
    /\ threads # <<>>
    /\ threads[t].pc = "rule"
    /\ LET i == threads[t].self
           rules == Rules(heap, heap[i])
           r == rules[threads[t].k]
       IN /\ heap' = AddAll(heap, i, r.triples)
          /\ threads' =
                IF r.exc # ""
                THEN [threads EXCEPT ![t].pc = "done", ![t].exc = r.exc,
                                     ![t].ret = [format |-> threads[t].format, triples |-> {}]]
                ELSE IF threads[t].k = Len(rules)
                THEN [threads EXCEPT ![t].pc = "return"]
                ELSE [threads EXCEPT ![t].k = @ + 1]
    /\ UNCHANGED <<skolem_count, nops, last>>

\* return self._g, and to_rdf serializes the graph it was given
Return(t) ==
    /\ threads # <<>>
    /\ threads[t].pc = "return"
    /\ threads' = [threads EXCEPT ![t].pc = "done",
                                  ![t].ret = serialize(heap[threads[t].self].g,
                                                       threads[t].format)]
    /\ UNCHANGED <<heap, skolem_count, nops, last>>

ConcNext ==
    /\ heap # <<>>
    /\ \/ \E a, b \in Targets : \E format \in Formats : a <= b /\ Start(a, b, format)
       \/ \E t \in 1..2 : Check(t)
       \/ \E t \in 1..2 : Mint(t)
       \/ \E t \in 1..2 : Assign(t)
       \/ \E t \in 1..2 : CreateGraph(t)
       \/ \E t \in 1..2 : AddType(t)
       \/ \E t \in 1..2 : RunRule(t)
       \/ \E t \in 1..2 : Return(t)

ConcSpec == Init /\ [][ConcNext]_vars

-----------------------------------------------------------------------------
(* Vocabulary of the properties below.                                     *)

\* the entity that is serialized, and the graph the last to_rdf returned
Entity == heap[1]
Called == heap # <<>> /\ last.op = "to_rdf"
Returned == Called /\ last.exc = ""
G == last.ret.triples

\* the URIs the skolemizer has minted so far
Minted == {SkolemURIs[k] : k \in 1..skolem_count}

\* the triples of a graph with a given predicate
WithPredicate(g, pred) == {t \in g : t[2] = pred}

\* the predicate each attribute is mapped to
PredicateOf(kind, name) ==
    CASE name = "title" -> "dct:title"
      [] name = "name" -> "dct:title"
      [] name = "description" -> "dct:description"
      [] name = "pref_label" -> "skos:prefLabel"
      [] name = "dct_identifier" -> "dct:identifier"
      [] name = "processing_time" -> "cv:processingTime"
      [] name = "has_competent_authority" -> "cv:hasCompetentAuthority"
      [] name = "spatial_coverage" -> "dct:spatial"
      [] name = "follows" -> "cpsv:follows"
      [] name = "has_legal_resources" -> "cv:hasLegalResource"
      [] name = "has_input" -> "cpsv:hasInput"
      [] name = "is_grouped_by" -> "cv:isGroupedBy"
      [] name = "implements" -> "cpsv:implements"
      [] name = "languages" -> "dct:language"
      [] name = "type" -> "dct:type"
      [] name = "types" -> "dct:type"
      [] name = "references" -> "rdfs:seeAlso"
      [] name = "related" -> "dct:relation"
      [] name = "related_service" -> "dct:relation"
      [] name = "related_documentation" -> "foaf:page"

\* the URI a list element is linked by: its identifier, or the bare URI
\* string itself
LinkTarget(x) == IF x.tag = "obj" THEN getattr(heap[x.id], "identifier") ELSE x

-----------------------------------------------------------------------------
(* C1: identifier resolution by the skolemizer.                            *)

C1_Step ==
    (heap # <<>> /\ last'.op = "to_rdf") =>
        LET before == getattr(heap[1], "identifier")
            after == getattr(heap'[1], "identifier")
        IN /\ ~Truthy(before) =>
                /\ skolem_count' = skolem_count + 1
                /\ after = Str(SkolemURIs[skolem_count'])
                /\ after.s \notin Minted
           /\ (Truthy(before) /\ before.s \in Minted) =>
                /\ after = before
                /\ skolem_count' = skolem_count
           /\ (~Truthy(before) \/ before.s \in Minted) =>
                (last'.exc = "" => \A t \in last'.ret.triples : t[1] = after.s)

\* C1 (as amended): for every kind but Service, a to_rdf call on an instance
\* whose identifier is unset makes the skolemizer mint a fresh URI, which
\* becomes the identifier and the subject of every triple returned; a to_rdf
\* call on an instance whose identifier is a minted URI mints nothing and uses
\* that same URI as the subject.  A Service cannot be constructed without an
\* identifier, and its to_rdf never mints.
C1_SkolemSubjectStable ==
    [][/\ C1_Step
       /\ (heap # <<>> /\ heap[1].kind = "Service") => skolem_count' = skolem_count]_vars

\* C1 witness: a second to_rdf on a Rule constructed without an identifier
\* returned a graph whose subject is the URI the first call minted
C1_Witness ==
    /\ Returned
    /\ Entity.kind = "Rule"
    /\ last.pre = Str(SkolemURIs[1])
    /\ last.minted = 0
    /\ skolem_count = 1
    /\ \E t \in G : t[1] = SkolemURIs[1]

\* C1 as claimed: every kind, Service included, can be constructed without an
\* identifier, and such an instance gets a minted subject on its first to_rdf
C1_EveryKindSkolemized ==
    /\ (last.op = "__init__" /\ last.pre = NoArg) => (last.exc = "" /\ heap # <<>>)
    /\ (Returned /\ ~Truthy(last.pre)) =>
            (last.minted = 1 /\ \A t \in G : t[1] \in Minted)

-----------------------------------------------------------------------------
(* C2: an explicit identifier is the subject.                              *)

\* C2: a to_rdf call on an entity whose identifier holds a string the caller
\* gave (at construction or by assignment) does not invoke the skolemizer,
\* leaves the identifier as it is, and returns only triples whose subject is
\* that identifier
C2_ExplicitIdentifierIsSubject ==
    (Called /\ Truthy(last.pre) /\ last.pre.s \notin Minted) =>
        /\ last.minted = 0
        /\ getattr(Entity, "identifier") = last.pre
        /\ last.exc = "" => (G # {} /\ \A t \in G : t[1] = last.pre.s)

\* C2 witness: an entity with an identifier assigned by the caller returned a
\* graph of several triples
C2_Witness ==
    /\ Returned
    /\ last.pre = Str(OtherURI)
    /\ Cardinality(G) > 2
    /\ skolem_count = 0

-----------------------------------------------------------------------------
(* C3: the type triple.                                                    *)

\* C3: the graph a to_rdf call returns holds exactly one rdf:type triple: its
\* subject is the entity's identifier and its object the class of the kind
C3_ExactlyOneTypeTriple ==
    Returned =>
        WithPredicate(G, RDF_type) =
            {<<getattr(Entity, "identifier").s, RDF_type, URIRef(ClassOf(Entity.kind))>>}

\* C3 witness: an entity with every attribute populated, a dct:type among
\* them, returned its graph
C3_Witness ==
    /\ Returned
    /\ Entity.kind = "LegalResource"
    /\ WithPredicate(G, "dct:type") # {}
    /\ WithPredicate(G, "dct:relation") # {}

-----------------------------------------------------------------------------
(* C4: a referent is linked, never serialized.                             *)

\* the strings the attributes of the referents hold
ReferentStrings ==
    {"Referent text"} \cup
    {heap[i].attrs["dct_identifier"].s :
        i \in {j \in DOMAIN heap \ {1} : Truthy(getattr(heap[j], "dct_identifier"))}}

\* C4: every triple of the graph a to_rdf call returns has the entity's own
\* identifier as subject; no literal of the graph comes from an attribute of a
\* referent and no rdf:type triple gives a referent's class; each referent
\* appears as the object of a link triple, and only there
C4_ReferentsOnlyLinked ==
    Returned =>
        /\ \A t \in G :
            /\ t[1] = Subject(Entity)
            /\ t[3].t = "Literal" => t[3].v \notin ReferentStrings
            /\ t[2] = RDF_type => t[3] = URIRef(ClassOf(Entity.kind))
        /\ \A i \in Linked \ {1} :
            /\ \E t \in G : t[2] # RDF_type /\ t[3] = URIRef(Subject(heap[i]))
            /\ Subject(heap[i]) # Subject(Entity) =>
                    \A t \in G : t[1] # Subject(heap[i])

\* C4 witness: a Rule that implements two LegalResources, each with a
\* description and a dct_identifier of its own, returned its graph
C4_Witness ==
    /\ Returned
    /\ Entity.kind = "Rule"
    /\ Cardinality(WithPredicate(G, "cpsv:implements")) = 2
    /\ \A i \in Linked :
        /\ heap[i].kind = "LegalResource"
        /\ Truthy(getattr(heap[i], "description"))
        /\ Truthy(getattr(heap[i], "dct_identifier"))

-----------------------------------------------------------------------------
(* C5: unset and empty attributes.                                         *)

\* the attributes of the entity that map to a predicate
Mapped == Properties(Entity.kind) \ {"identifier"}

\* the objects an attribute value refers to without an identifier
Anonymous(v) ==
    {i \in DOMAIN heap :
        /\ Raises(heap[i], "identifier")
        /\ \/ v = Obj(i)
           \/ v.tag = "list" /\ \E k \in DOMAIN v.l : v.l[k] = Obj(i)}

\* C5: an attribute that was never assigned, or holds None, "", {} or [],
\* puts no triple with its predicate in the graph and is never what makes
\* to_rdf raise (a call raises only for a non-empty reference attribute with a
\* referent that has no identifier); with every attribute unset or empty the
\* call returns exactly the type triple
C5_EmptyAttributesEmitNothing ==
    Called =>
        /\ last.exc = "" =>
            \A name \in Mapped :
                ~Truthy(getattr(Entity, name)) =>
                    WithPredicate(G, PredicateOf(Entity.kind, name)) = {}
        /\ last.exc # "" =>
            \E name \in Mapped :
                Truthy(getattr(Entity, name)) /\ Anonymous(getattr(Entity, name)) # {}
        /\ (\A name \in Mapped : ~Truthy(getattr(Entity, name))) =>
            /\ last.exc = ""
            /\ G = {<<Subject(Entity), RDF_type, URIRef(ClassOf(Entity.kind))>>}

\* C5 witness: a Service whose description was assigned {} and whose
\* dct_identifier was assigned "" returned a graph of the type triple alone
C5_Witness ==
    /\ Returned
    /\ Entity.kind = "Service"
    /\ Entity.attrs["description"] = EmptyDict
    /\ Entity.attrs["dct_identifier"] = Str("")
    /\ Cardinality(G) = 1

-----------------------------------------------------------------------------
(* C6: localized texts.                                                    *)

\* C6: for every localized-text attribute, the triples with its predicate in
\* the graph a to_rdf call returns are exactly one per language key of the
\* mapping, a literal of the mapped string tagged with the key; there is none
\* when the attribute is unset.  CriterionRequirement, whose title rule runs
\* twice, is no exception
C6_OneTriplePerLanguage ==
    Returned =>
        \A name \in Mapped \cap TextNames :
            LET v == getattr(Entity, name)
                keys == IF v.tag = "dict" THEN DOMAIN v.d ELSE {}
                triples == WithPredicate(G, PredicateOf(Entity.kind, name))
            IN /\ triples = {<<Subject(Entity), PredicateOf(Entity.kind, name),
                               Literal(v.d[key], key, "")>> : key \in keys}
               /\ Cardinality(triples) = Cardinality(keys)

\* C6 witness: a CriterionRequirement with a title in two languages returned a
\* graph with two dct:title triples
C6_Witness ==
    /\ Returned
    /\ Entity.kind = "CriterionRequirement"
    /\ Entity.attrs["title"] = TwoLangs
    /\ Cardinality(WithPredicate(G, "dct:title")) = 2

-----------------------------------------------------------------------------
(* C7: reference lists.                                                    *)

\* the list attributes of the entity
Lists == {name \in Mapped \cap ListNames : getattr(Entity, name).tag = "list"}

\* C7 as claimed: the number of triples with the predicate of a list attribute
\* equals the length of the list
C7_OneTriplePerElement ==
    Returned =>
        \A name \in Lists :
            Cardinality(WithPredicate(G, PredicateOf(Entity.kind, name)))
                = Len(Entity.attrs[name].l)

\* C7 (as amended): the objects of the triples with the predicate of a list
\* attribute are exactly the identifiers (or bare URI strings) of the elements
\* of the list, so there is one triple per distinct identifier and never more
\* triples than elements
C7_OneTriplePerDistinctTarget ==
    Returned =>
        \A name \in Lists :
            LET l == Entity.attrs[name].l
                pred == PredicateOf(Entity.kind, name)
                targets == {LinkTarget(l[k]).s : k \in DOMAIN l}
            IN /\ WithPredicate(G, pred) =
                    {<<Subject(Entity), pred, URIRef(u)>> : u \in targets}
               /\ Cardinality(WithPredicate(G, pred)) = Cardinality(targets)
               /\ Cardinality(WithPredicate(G, pred)) <= Len(l)

\* C7 witness: an entity whose languages list holds the same URI twice
\* returned a graph with one dct:language triple
C7_Witness ==
    /\ Returned
    /\ "languages" \in Lists
    /\ Len(Entity.attrs["languages"].l) = 2
    /\ Entity.attrs["languages"].l[1] = Entity.attrs["languages"].l[2]
    /\ Cardinality(WithPredicate(G, "dct:language")) = 1

-----------------------------------------------------------------------------
(* C8: anonymous events in is_grouped_by.                                  *)

\* C8: a to_rdf call on a Service whose is_grouped_by list holds Events
\* (every other reference of the Service having an identifier) raises nothing,
\* leaves every one of those events with an identifier, and returns a
\* cv:isGroupedBy triple to each of them
C8_AnonymousEventsLinked ==
    (/\ Called
     /\ Entity.kind = "Service"
     /\ Truthy(getattr(Entity, "is_grouped_by"))
     /\ \A name \in Mapped \ {"is_grouped_by"} : Anonymous(getattr(Entity, name)) = {}) =>
        /\ last.exc = ""
        /\ \A k \in DOMAIN Entity.attrs["is_grouped_by"].l :
            LET event == heap[Entity.attrs["is_grouped_by"].l[k].id]
            IN /\ ~Raises(event, "identifier")
               /\ <<Subject(Entity), "cv:isGroupedBy", URIRef(Subject(event))>> \in G

-----------------------------------------------------------------------------
(* C9: Service.has_criterion.                                              *)

\* C9: a Service has a has_criterion list, empty after construction, that
\* the caller appends CriterionRequirements to, the package exporting that
\* class; and a to_rdf call on a Service returns one cv:hasCriterion triple for
\* each requirement in the list
C9_ServiceHasCriterion ==
    /\ (heap # <<>> /\ last.op = "append" /\ last.name = "has_criterion") =>
            /\ "CriterionRequirement" \in Exports
            /\ "has_criterion" \in Properties("Service")
            /\ last.exc = ""
    /\ (Returned /\ Entity.kind = "Service") =>
            /\ getattr(Entity, "has_criterion").tag = "list"
            /\ {t[3] : t \in WithPredicate(G, "cv:hasCriterion")} =
                    {URIRef(LinkTarget(Entity.attrs["has_criterion"].l[k]).s) :
                        k \in DOMAIN Entity.attrs["has_criterion"].l}

-----------------------------------------------------------------------------
(* C10: dct_identifier of Evidence and Event.                              *)

\* C10: the graph a to_rdf call on an Evidence or an Event with a
\* dct_identifier returns has exactly one dct:identifier triple, and its object
\* is a literal of datatype xsd:anyURI, whether the subject is an identifier the
\* caller gave or a skolem URI
C10_DctIdentifierIsAnyURI ==
    (/\ Returned
     /\ Entity.kind \in {"Evidence", "Event"}
     /\ Truthy(getattr(Entity, "dct_identifier"))) =>
        WithPredicate(G, "dct:identifier") =
            {<<Subject(Entity), "dct:identifier",
               Literal(Entity.attrs["dct_identifier"].s, "", XSD_anyURI)>>}

-----------------------------------------------------------------------------
(* C11: dct_identifier of Service and Rule.                                *)

\* C11: the graph a to_rdf call on a Service or a Rule with a dct_identifier
\* returns has exactly one dct:identifier triple, and its object is a literal
\* of datatype xsd:anyURI
C11_ServiceRuleDctIdentifierIsAnyURI ==
    (/\ Returned
     /\ Entity.kind \in {"Service", "Rule"}
     /\ Truthy(getattr(Entity, "dct_identifier"))) =>
        WithPredicate(G, "dct:identifier") =
            {<<Subject(Entity), "dct:identifier",
               Literal(Entity.attrs["dct_identifier"].s, "", XSD_anyURI)>>}

-----------------------------------------------------------------------------
(* C12: serializing twice.                                                 *)

\* C12: a to_rdf call that directly follows a to_rdf call that returned, no
\* assignment in between, returns too, and returns the same set of triples,
\* subjects included; the first of the two may be the call that mints the
\* identifier
C12_ConsecutiveCallsAgree ==
    [][(heap # <<>> /\ last.op = "to_rdf" /\ last.exc = "" /\ last'.op = "to_rdf") =>
            /\ last'.exc = ""
            /\ last'.ret.triples = last.ret.triples
            /\ last'.minted = 0
            /\ getattr(heap'[1], "identifier") = getattr(heap[1], "identifier")]_vars

\* C12 witness: an entity left as constructed, without an identifier, was
\* serialized a second time and returned a graph of several triples on the
\* identifier the first call minted
C12_Witness ==
    /\ Returned
    /\ nops = 0
    /\ skolem_count = 1
    /\ last.minted = 0
    /\ last.pre = Str(SkolemURIs[1])
    /\ Cardinality(G) > 2
    /\ \A t \in G : t[1] = SkolemURIs[1]

-----------------------------------------------------------------------------
(* C13: the graph is rebuilt on every call.                                *)

\* C13: the graph a to_rdf call returns is the graph of an entity with the
\* same identifier and the same attribute values that was never serialized
\* before; every subject in it is the current identifier, so nothing of an
\* identifier or a value that was replaced since an earlier call survives
C13_RebuiltFromCurrentState ==
    Returned =>
        LET fresh == to_rdf([heap EXCEPT ![1].g = Unset], 1, skolem_count, last.ret.format)
        IN /\ fresh.exc = ""
           /\ fresh.ret.triples = G
           /\ Entity.g = GraphV(G)
           /\ \A t \in G : t[1] = Subject(Entity)

\* C13 witness: an entity was serialized under a minted identifier, was then
\* assigned another identifier, and returned a graph under the new one
C13_Witness ==
    /\ Returned
    /\ skolem_count = 1
    /\ getattr(Entity, "identifier") = Str(OtherURI)
    /\ Cardinality(G) > 1
    /\ \A t \in G : t[1] = OtherURI

-----------------------------------------------------------------------------
(* The mapping of each class, attribute by attribute: the triples an       *)
(* attribute of the entity stands for, with the entity as subject.         *)

\* one language-tagged literal per key of a text attribute
Texts(name, pred) ==
    LET v == getattr(Entity, name)
    IN IF v.tag = "dict"
       THEN {<<Subject(Entity), pred, Literal(v.d[key], key, "")>> : key \in DOMAIN v.d}
       ELSE {}

\* one literal of a string attribute that is not empty
Lit(name, pred, datatype) ==
    LET v == getattr(Entity, name)
    IN IF v.tag = "str" /\ v.s # ""
       THEN {<<Subject(Entity), pred, Literal(v.s, "", datatype)>>}
       ELSE {}

\* one URI of a URI attribute, or one link to the referent of a reference
Link(name, pred) ==
    LET v == getattr(Entity, name)
    IN IF v.tag \in {"str", "obj"}
       THEN {<<Subject(Entity), pred, URIRef(LinkTarget(v).s)>>}
       ELSE {}

\* one URI per listed string, or one link per listed referent
Links(name, pred) ==
    LET v == getattr(Entity, name)
    IN IF v.tag = "list"
       THEN {<<Subject(Entity), pred, URIRef(LinkTarget(v.l[k]).s)>> : k \in DOMAIN v.l}
       ELSE {}

TypeTriple == {<<Subject(Entity), RDF_type, URIRef(ClassOf(Entity.kind))>>}

\* a graph with the datatype of its dct:identifier literals left out
IdentifierUntyped(g) ==
    {IF t[2] = "dct:identifier" THEN <<t[1], t[2], [t[3] EXCEPT !.datatype = ""]>> ELSE t :
        t \in g}

\* every attribute of the entity holds a non-empty value
AllSet == \A name \in Mapped : Truthy(getattr(Entity, name))

-----------------------------------------------------------------------------
(* C14: the Service mapping.                                               *)

\* C14: the graph a to_rdf call on a Service returns is exactly the
\* cpsv:PublicService type triple, the dct:title and dct:description literals
\* of the title and the description, one cv:hasCompetentAuthority link to the
\* organization, the cpsv:follows, cv:hasLegalResource, cpsv:hasInput and
\* cv:isGroupedBy links to the members of the four lists, one cv:processingTime
\* literal of datatype xsd:duration and one dct:identifier literal
C14_ServiceMapping ==
    (Returned /\ Entity.kind = "Service") =>
        /\ IdentifierUntyped(G) =
                TypeTriple
                \cup Texts("title", "dct:title")
                \cup Texts("description", "dct:description")
                \cup Lit("dct_identifier", "dct:identifier", "")
                \cup Link("has_competent_authority", "cv:hasCompetentAuthority")
                \cup Links("follows", "cpsv:follows")
                \cup Links("has_legal_resources", "cv:hasLegalResource")
                \cup Lit("processing_time", "cv:processingTime", XSD_duration)
                \cup Links("has_input", "cpsv:hasInput")
                \cup Links("is_grouped_by", "cv:isGroupedBy")
        /\ Cardinality(WithPredicate(G, "dct:identifier")) <= 1

\* C14 witness: a Service with every attribute set returned its graph, a
\* processing time and the link to its organization in it
C14_Witness ==
    /\ Returned
    /\ Entity.kind = "Service"
    /\ AllSet
    /\ WithPredicate(G, "cv:processingTime") # {}
    /\ WithPredicate(G, "cv:hasCompetentAuthority") # {}
    /\ Cardinality(WithPredicate(G, "cv:isGroupedBy")) = 2

-----------------------------------------------------------------------------
(* C15: the Rule mapping.                                                  *)

\* C15: the graph a to_rdf call on a Rule returns is exactly the cpsv:Rule
\* type triple, the dct:title and dct:description literals, the
\* cpsv:implements links to the LegalResources, the dct:language and dct:type
\* URIs of the listed strings and one dct:identifier literal
C15_RuleMapping ==
    (Returned /\ Entity.kind = "Rule") =>
        /\ IdentifierUntyped(G) =
                TypeTriple
                \cup Texts("title", "dct:title")
                \cup Texts("description", "dct:description")
                \cup Lit("dct_identifier", "dct:identifier", "")
                \cup Links("implements", "cpsv:implements")
                \cup Links("languages", "dct:language")
                \cup Links("types", "dct:type")
        /\ Cardinality(WithPredicate(G, "dct:identifier")) <= 1

\* C15 witness: a Rule with every attribute set returned its graph, two
\* languages and two types in it
C15_Witness ==
    /\ Returned
    /\ Entity.kind = "Rule"
    /\ AllSet
    /\ Cardinality(WithPredicate(G, "dct:language")) = 2
    /\ Cardinality(WithPredicate(G, "dct:type")) = 2
    /\ Cardinality(WithPredicate(G, "cpsv:implements")) = 2

-----------------------------------------------------------------------------
(* C16: the LegalResource mapping.                                         *)

\* C16: the graph a to_rdf call on a LegalResource returns is exactly the
\* eli:LegalResource type triple, the dct:type links to the identifiers of its
\* ResourceTypes, one dct:identifier plain literal, the dct:description
\* literals, the rdfs:seeAlso URIs of the listed strings and the dct:relation
\* links to the related LegalResources; a ResourceType is the subject of no
\* triple
C16_LegalResourceMapping ==
    (Returned /\ Entity.kind = "LegalResource") =>
        /\ G = TypeTriple
                \cup Links("types", "dct:type")
                \cup Lit("dct_identifier", "dct:identifier", "")
                \cup Texts("description", "dct:description")
                \cup Links("references", "rdfs:seeAlso")
                \cup Links("related", "dct:relation")
        /\ \A i \in Linked :
                (heap[i].kind = "ResourceType" /\ Subject(heap[i]) # Subject(Entity)) =>
                    \A t \in G : t[1] # Subject(heap[i])

\* C16 witness: a LegalResource with every attribute set, a ResourceType
\* among its types, returned its graph
C16_Witness ==
    /\ Returned
    /\ Entity.kind = "LegalResource"
    /\ AllSet
    /\ \E i \in Linked : heap[i].kind = "ResourceType"
    /\ WithPredicate(G, "dct:type") # {}
    /\ WithPredicate(G, "dct:identifier") # {}
    /\ Cardinality(WithPredicate(G, "rdfs:seeAlso")) = 2

-----------------------------------------------------------------------------
(* C17: the PublicOrganization mapping.                                    *)

\* C17: the graph a to_rdf call on a PublicOrganization returns is exactly the
\* cv:PublicOrganization type triple, the dct:title and skos:prefLabel
\* literals, one dct:identifier plain literal and one dct:spatial link to the
\* identifier of the Location
C17_PublicOrganizationMapping ==
    (Returned /\ Entity.kind = "PublicOrganization") =>
        G = TypeTriple
                \cup Texts("title", "dct:title")
                \cup Lit("dct_identifier", "dct:identifier", "")
                \cup Texts("pref_label", "skos:prefLabel")
                \cup Link("spatial_coverage", "dct:spatial")

\* C17 witness: a PublicOrganization with every attribute set returned its
\* graph, two labels and the link to its Location in it
C17_Witness ==
    /\ Returned
    /\ Entity.kind = "PublicOrganization"
    /\ AllSet
    /\ Cardinality(WithPredicate(G, "skos:prefLabel")) = 2
    /\ Cardinality(WithPredicate(G, "dct:spatial")) = 1

-----------------------------------------------------------------------------
(* C18: the Evidence mapping.                                              *)

\* C18: the graph a to_rdf call on an Evidence returns is exactly the
\* cpsv:Evidence type triple, the dct:title literals of the name, the
\* dct:description literals, one dct:type URI, the foaf:page and dct:language
\* URIs of the listed strings and one dct:identifier literal
C18_EvidenceMapping ==
    (Returned /\ Entity.kind = "Evidence") =>
        /\ IdentifierUntyped(G) =
                TypeTriple
                \cup Lit("dct_identifier", "dct:identifier", "")
                \cup Texts("name", "dct:title")
                \cup Texts("description", "dct:description")
                \cup Link("type", "dct:type")
                \cup Links("related_documentation", "foaf:page")
                \cup Links("languages", "dct:language")
        /\ Cardinality(WithPredicate(G, "dct:identifier")) <= 1

\* C18 witness: an Evidence with every attribute set returned its graph, its
\* name in two languages and its type in it
C18_Witness ==
    /\ Returned
    /\ Entity.kind = "Evidence"
    /\ AllSet
    /\ Cardinality(WithPredicate(G, "dct:title")) = 2
    /\ Cardinality(WithPredicate(G, "dct:type")) = 1
    /\ Cardinality(WithPredicate(G, "foaf:page")) = 2

-----------------------------------------------------------------------------
(* C19: the Event mapping.                                                 *)

\* C19: the graph a to_rdf call on an Event returns is exactly the cpsv:Event
\* type triple, the dct:title literals of the name, the dct:description
\* literals, one dct:type URI, the dct:relation URIs of the listed services
\* and one dct:identifier literal
C19_EventMapping ==
    (Returned /\ Entity.kind = "Event") =>
        /\ IdentifierUntyped(G) =
                TypeTriple
                \cup Lit("dct_identifier", "dct:identifier", "")
                \cup Texts("name", "dct:title")
                \cup Texts("description", "dct:description")
                \cup Link("type", "dct:type")
                \cup Links("related_service", "dct:relation")
        /\ Cardinality(WithPredicate(G, "dct:identifier")) <= 1

\* C19 witness: an Event with every attribute set returned its graph, two
\* related services and its type in it
C19_Witness ==
    /\ Returned
    /\ Entity.kind = "Event"
    /\ AllSet
    /\ Cardinality(WithPredicate(G, "dct:relation")) = 2
    /\ Cardinality(WithPredicate(G, "dct:type")) = 1

-----------------------------------------------------------------------------
(* C20: the CriterionRequirement mapping.                                  *)

\* C20: the graph a to_rdf call on a CriterionRequirement returns is exactly
\* the cv:CriterionRequirement type triple, the dct:title literals, one
\* dct:identifier literal of datatype xsd:anyURI and the dct:type URIs of the
\* listed strings
C20_CriterionRequirementMapping ==
    (Returned /\ Entity.kind = "CriterionRequirement") =>
        G = TypeTriple
                \cup Texts("title", "dct:title")
                \cup Lit("dct_identifier", "dct:identifier", XSD_anyURI)
                \cup Links("types", "dct:type")

\* C20 witness: a CriterionRequirement with every attribute set returned its
\* graph, a typed dct:identifier and two types in it
C20_Witness ==
    /\ Returned
    /\ Entity.kind = "CriterionRequirement"
    /\ AllSet
    /\ \E t \in WithPredicate(G, "dct:identifier") : t[3].datatype = XSD_anyURI
    /\ Cardinality(WithPredicate(G, "dct:type")) = 2

-----------------------------------------------------------------------------
(* C28: what a to_rdf call changes.                                        *)

\* C28: a to_rdf call, whether it returns or raises, leaves every object
\* other than the serialized entity as it was, identifier included, and
\* leaves every attribute of the entity as it was but its graph handle and,
\* when it was unset, its identifier
C28_OnlyOwnGraphAndIdentifierChange ==
    [][(heap # <<>> /\ last'.op = "to_rdf") =>
            /\ DOMAIN heap' = DOMAIN heap
            /\ \A i \in DOMAIN heap \ {1} : heap'[i] = heap[i]
            /\ heap'[1].kind = heap[1].kind
            /\ \A name \in Properties(heap[1].kind) \ {"identifier"} :
                    heap'[1].attrs[name] = heap[1].attrs[name]
            /\ Truthy(getattr(heap[1], "identifier")) =>
                    heap'[1].attrs["identifier"] = heap[1].attrs["identifier"]]_vars

\* C28 witness: a to_rdf call on a Rule without an identifier minted one and
\* returned a graph with links to LegalResources, which still hold their own
\* identifier, description and dct_identifier
C28_Witness ==
    /\ Returned
    /\ Entity.kind = "Rule"
    /\ last.minted = 1
    /\ Linked # {}
    /\ \A i \in Linked :
        /\ getattr(heap[i], "identifier") = Str(OwnURIs[i])
        /\ getattr(heap[i], "description") = ReferentText
        /\ getattr(heap[i], "dct_identifier") = Str("https://unique.uri.com/referent")

-----------------------------------------------------------------------------
(* C29: a call that raises.                                                *)

\* C29: a to_rdf call on an entity without an identifier that raises has
\* left the entity as it was: it has minted nothing, the identifier is still
\* unset and so is the graph handle
C29_FailedCallLeavesEntity ==
    (Called /\ last.exc # "" /\ ~Truthy(last.pre)) =>
        /\ last.minted = 0
        /\ ~Truthy(getattr(Entity, "identifier"))
        /\ Entity.g = Unset

-----------------------------------------------------------------------------
(* C30: the graph is a set.                                                *)

\* C30: elements of a list attribute that resolve to the same identifier or
\* URI, the same object listed twice or distinct objects with equal
\* identifiers, share a single link triple: the triples with the predicate of
\* the list are as many as the distinct identifiers in it, fewer than its
\* length as soon as two elements agree
C30_EqualTargetsShareOneTriple ==
    Returned =>
        \A name \in Lists :
            LET l == Entity.attrs[name].l
                triples == WithPredicate(G, PredicateOf(Entity.kind, name))
            IN /\ \A k \in DOMAIN l :
                    Cardinality({t \in triples : t[3].v = LinkTarget(l[k]).s}) = 1
               /\ Cardinality(triples) = Cardinality({LinkTarget(l[k]).s : k \in DOMAIN l})
               /\ (\E j, k \in DOMAIN l : j # k /\ LinkTarget(l[j]) = LinkTarget(l[k])) =>
                    Cardinality(triples) < Len(l)

\* C30 witness: a Rule that implements two distinct LegalResources with the
\* same identifier returned a graph with one cpsv:implements triple
C30_Witness ==
    /\ Returned
    /\ Entity.kind = "Rule"
    /\ Len(Entity.attrs["implements"].l) = 2
    /\ Entity.attrs["implements"].l[1] # Entity.attrs["implements"].l[2]
    /\ Cardinality(WithPredicate(G, "cpsv:implements")) = 1

-----------------------------------------------------------------------------
(* C24: cycles of related LegalResources.                                  *)

\* the objects listed in a list attribute of an object
Listed(obj, name) ==
    LET v == getattr(obj, name)
    IN IF v.tag = "list" THEN {v.l[k].id : k \in DOMAIN v.l} ELSE {}

\* the entity is related to itself, or to a resource that is related to it
SelfRelated == 1 \in Listed(Entity, "related")
MutuallyRelated == \E i \in Listed(Entity, "related") \ {1} : 1 \in Listed(heap[i], "related")

\* C24: a to_rdf call on a LegalResource that is related to itself, or to a
\* LegalResource that is related to it, every object it refers to having an
\* identifier, completes without raising and returns one dct:relation triple
\* for each distinct identifier among its related resources, and nothing of
\* what those are related to
C24_CyclesTerminate ==
    (/\ Called
     /\ Entity.kind = "LegalResource"
     /\ SelfRelated \/ MutuallyRelated
     /\ \A name \in Mapped : Anonymous(getattr(Entity, name)) = {}) =>
        /\ last.exc = ""
        /\ WithPredicate(G, "dct:relation") =
                {<<Subject(Entity), "dct:relation", URIRef(Subject(heap[i]))>> :
                    i \in Listed(Entity, "related")}
        /\ Cardinality(WithPredicate(G, "dct:relation")) <= Len(Entity.attrs["related"].l)

\* C24 witness: a LegalResource related to itself and to a resource that is
\* related to it returned a graph with two dct:relation triples, one of them
\* to its own identifier
C24_Witness ==
    /\ Returned
    /\ Entity.kind = "LegalResource"
    /\ SelfRelated
    /\ MutuallyRelated
    /\ Cardinality(WithPredicate(G, "dct:relation")) = 2
    /\ <<Subject(Entity), "dct:relation", URIRef(Subject(Entity))>> \in G

-----------------------------------------------------------------------------
(* C26: the rules are independent of each other.                           *)

\* the attribute each rule of a kind reads, in the order of the rules
RuleAttrs(kind) ==
    CASE kind = "Service" ->
            <<"title", "description", "dct_identifier", "has_competent_authority", "follows",
              "has_legal_resources", "processing_time", "has_input", "is_grouped_by">>
      [] kind = "Rule" ->
            <<"title", "dct_identifier", "description", "implements", "languages", "types">>
      [] kind = "LegalResource" ->
            <<"types", "dct_identifier", "description", "references", "related">>
      [] kind = "PublicOrganization" ->
            <<"title", "dct_identifier", "pref_label", "spatial_coverage">>
      [] kind = "Evidence" ->
            <<"dct_identifier", "name", "description", "type", "related_documentation",
              "languages">>
      [] kind = "Event" ->
            <<"dct_identifier", "name", "description", "type", "related_service">>
      [] kind = "CriterionRequirement" ->
            <<"title", "dct_identifier", "title", "types">>

\* the entity with nothing but its identifier and one attribute
Only(o, name) ==
    [o EXCEPT !.attrs = [a \in DOMAIN @ |-> IF a \in {"identifier", name} THEN @[a] ELSE Unset]]

\* a sequence with two of its elements exchanged
Swapped(seq, a, b) ==
    [k \in DOMAIN seq |-> IF k = a THEN seq[b] ELSE IF k = b THEN seq[a] ELSE seq[k]]

\* a sequence in the opposite order
Reversed(seq) == [k \in DOMAIN seq |-> seq[Len(seq) + 1 - k]]

\* C26: the graph a to_rdf call returns is the type triple together with what
\* each rule contributes; a rule contributes the same when the entity has only
\* its identifier and that rule's attribute; and the rules run in the opposite
\* order, with any two of them exchanged, or with one or each of them run twice,
\* give the same set
C26_RulesIndependent ==
    Returned =>
        LET rules == Rules(heap, Entity)
            attrs == RuleAttrs(Entity.kind)
        IN /\ Len(rules) = Len(attrs)
           /\ G = TypeTriple \cup UNION {rules[k].triples : k \in DOMAIN rules}
           /\ \A k \in DOMAIN rules :
                    Rules(heap, Only(Entity, attrs[k]))[k] = rules[k]
           /\ RunRules(Reversed(rules), 1, TypeTriple).triples = G
           /\ RunRules(rules \o rules, 1, TypeTriple).triples = G
           /\ \A k \in DOMAIN rules :
                    RunRules(rules \o <<rules[k]>>, 1, TypeTriple).triples = G
           /\ \A a, b \in DOMAIN rules :
                    RunRules(Swapped(rules, a, b), 1, TypeTriple).triples = G

\* C26 witness: a Service returned a graph to which four rules each
\* contributed triples
C26_Witness ==
    /\ Returned
    /\ Entity.kind = "Service"
    /\ Cardinality({k \in DOMAIN Rules(heap, Entity) :
                        Rules(heap, Entity)[k].triples # {}}) >= 4

-----------------------------------------------------------------------------
(* C27: an identifier, once held, is never lost.                           *)

-----------------------------------------------------------------------------
(* C23: what the setters of identifier and type accept.                    *)

\* the strings the caller assigns to an identifier or a type
AssignedStrings == {Str(""), Str(OtherURI), Str("http://example.com/type")}

\* the graph of a to_rdf call that returned has the identifier as the subject
\* of every triple and the type, if there is one, as the object of dct:type
PassedUnchanged ==
    Returned =>
        /\ \A t \in G : t[1] = Entity.attrs["identifier"].s
        /\ (Entity.kind \in {"Evidence", "Event"} /\ Truthy(getattr(Entity, "type"))) =>
                WithPredicate(G, "dct:type") =
                    {<<Entity.attrs["identifier"].s, "dct:type",
                       URIRef(Entity.attrs["type"].s)>>}

-----------------------------------------------------------------------------
(* C22: a skolemizer that raises.                                          *)

\* C22: a to_rdf call in which the skolemizer raises ends in the skolemizer's
\* exception, has called the skolemizer once, returns no document, mints
\* nothing, and leaves the entity as it was, its identifier still unset
C22_SkolemizerFailurePropagates ==
    [][(heap # <<>> /\ last'.op = "to_rdf" /\ last'.calls > last'.minted) =>
            /\ last'.exc = SkolemizerError
            /\ last'.calls = 1
            /\ last'.minted = 0
            /\ last'.ret.triples = {}
            /\ skolem_count' = skolem_count
            /\ heap' = heap
            /\ ~Truthy(getattr(heap'[1], "identifier"))]_vars

\* C22 witness: the skolemizer raised in a to_rdf call on a PublicOrganization
\* with a title and no identifier
C22_Witness ==
    /\ Called
    /\ Entity.kind = "PublicOrganization"
    /\ last.exc = SkolemizerError
    /\ last.calls = 1
    /\ Truthy(getattr(Entity, "title"))
    /\ ~Truthy(getattr(Entity, "identifier"))

-----------------------------------------------------------------------------
(* C21, C25: concurrent to_rdf calls.                                      *)

\* the two calls run on objects of which neither refers to the other
Independent ==
    /\ threads # <<>>
    /\ threads[1].self # threads[2].self
    /\ threads[1].self \notin Refers(heap, threads[2].self)
    /\ threads[2].self \notin Refers(heap, threads[1].self)

\* the triples of self._g of an object, none before its first graph
GraphOf(i) == IF heap[i].g.tag = "Graph" THEN heap[i].g.triples ELSE {}

\* what to_rdf returns when it runs alone on the object of a call
Alone(t) == to_rdf(heap, threads[t].self, skolem_count, threads[t].format)

C25_PrivateGraph ==
    (threads # <<>> /\ threads[1].self = threads[2].self) =>
        \A t \in 1..2 :
            (threads[t].pc = "done" /\ threads[t].exc = "") =>
                threads[t].ret.triples = Alone(t).ret.triples

====
